---- MODULE Spec2Model ----
(***************************************************************************)
(* Model of badcapt: the classification-and-export pipeline.               *)
(*                                                                         *)
(*   construction   New(opts...) / NewConfig(elasticLoc, markers...)       *)
(*   capture loop   Listen: OpenLive, then NextPacket in a loop; one       *)
(*                  goroutine running handle per packet read               *)
(*   dispatcher     handle: markers, series markers, export                *)
(*   record builder NewRecord                                              *)
(*   backends       exportScreen (stdout) / exportElastic (index call)     *)
(*                                                                         *)
(* The elasticsearch store is the set of index names that exist plus the   *)
(* calls made on the client: construction's in esCalls, each goroutine's   *)
(* in its task.  A marker is an opaque function of the packet: it returns  *)
(* tags or panics (see MarkerResult); each packet names the markers that   *)
(* recognise it and those that panic on it.                                *)
(*                                                                         *)
(* Standard output is one stream shared by every goroutine (see Write).    *)
(*                                                                         *)
(*   Spec      any constructor call, then Listen                           *)
(*   CmdSpec   the calls cmd/badcapt's main makes, and its exit            *)
(*   BuildSpec several pipelines built in one process                      *)
(***************************************************************************)
EXTENDS Integers, Sequences, FiniteSets, Bags, TLC

VARIABLES
    proc,       \* "running" | "crashed" (unrecovered panic) | "exited"
    mainPc,     \* position of the constructing/listening goroutine
    ctor,       \* the constructor call that was made (see CtorNew)
    conf,       \* the *Badcapt built by the constructor
    esInit,     \* index names that existed when construction looked
    esIndices,  \* index names that exist in the store now
    esCalls,    \* calls construction made on the elastic client, in order
    reads,      \* number of NextPacket calls that returned a packet or an error
    readLogs,   \* number of read errors written to the log
    listenRet,  \* value returned by Listen
    tasks,      \* one entry per goroutine launched by Listen
    arrays,     \* the arrays that back the marker slices of the process
    pipes,      \* the marker slice of every pipeline built so far
    stdout      \* the process's standard output: the lines completed so far
                \* and the text written since the last newline

vars == <<proc, mainPc, ctor, conf, esInit, esIndices, esCalls, reads,
          readLogs, listenRet, tasks, arrays, pipes, stdout>>

-----------------------------------------------------------------------------
(* Bounds *)

MaxReads == 2   \* NextPacket calls that return a packet or an error
MaxOpts == 2    \* option functions passed to New
MaxMarkers == 1 \* markers passed to NewConfig
MaxPipes == 2   \* pipelines a caller builds before the one it runs

-----------------------------------------------------------------------------
(* Program constants *)

indexName == "badcapt"
docType == "bcrecord"
defaultMarkers == <<"MiraiIdentifier", "ZmapIdentifier", "MasscanIdentifier">>
defaultSeriesMarkers == <<>>

NilClient == "nil"
EsClient == "client"

ErrNotIP4 == "not ip4 type packet"
ErrNoTransport == "nor tcp nor udp type packet"
ErrElastic == "elastic: index request failed"
ErrOption == "option failed"
ErrMarshal == "json: error calling MarshalJSON"

-----------------------------------------------------------------------------
(* Inputs: markers supplied by the caller, names, packets *)

CustomMarkers == {"M1", "M2"}
CustomIndexName == "custom"
CustomDocType == "customdoc"
IndexNames == {indexName, CustomIndexName}

NoLayer == [present |-> FALSE, SrcPort |-> 0, DstPort |-> 0]
Ports(s, d) == [present |-> TRUE, SrcPort |-> s, DstPort |-> d]

\* hits: the markers that recognise the packet; boom: the markers that panic
\* on it.
Pkt(n, ip4, tcp, udp, app, hits, boom) ==
    [name |-> n, ip4 |-> ip4,
     SrcIP |-> IF ip4 THEN "10.0.0.5" ELSE "",
     DstIP |-> IF ip4 THEN "203.0.113.9" ELSE "",
     tcp |-> tcp, udp |-> udp,
     app |-> app, Payload |-> IF app THEN <<71, 69, 84>> ELSE <<>>,
     Timestamp |-> 1000 + n, hits |-> hits, boom |-> boom]

\* The packets the capture source can yield: one per case of NewRecord and
\* of the markers.
Packets ==
    { Pkt(1, TRUE, Ports(51413, 23), NoLayer, FALSE, {"MasscanIdentifier"}, {}),
      Pkt(2, TRUE, NoLayer, Ports(5353, 53), TRUE, {"M1"}, {}),
      Pkt(3, TRUE, NoLayer, NoLayer, FALSE, {"ZmapIdentifier"}, {}),
      Pkt(4, TRUE, Ports(1, 2), Ports(3, 4), TRUE, {"MiraiIdentifier", "M1"},
          {"M2"}),
      Pkt(5, FALSE, NoLayer, NoLayer, TRUE, {"ZmapIdentifier", "M2"}, {}) }

-----------------------------------------------------------------------------
(* Markers *)

RECURSIVE Concat(_)
Concat(ss) == IF ss = <<>> THEN <<>> ELSE Head(ss) \o Concat(Tail(ss))

\* The tags a marker reports when it recognises a packet.
MarkerTags(m) ==
    CASE m = "MiraiIdentifier" -> <<"mirai">>
      [] m = "ZmapIdentifier" -> <<"zmap">>
      [] m = "MasscanIdentifier" -> <<"masscan">>
      [] m = "M1" -> <<"m1a", "m1b">>
      [] OTHER -> <<"m2">>

\* A Marker is a func(gopacket.Packet) []string: it returns tags or panics.
MarkerResult(m, p) ==
    IF m \in p.boom THEN [panic |-> TRUE, tags |-> <<>>]
    ELSE IF m \in p.hits THEN [panic |-> FALSE, tags |-> MarkerTags(m)]
    ELSE [panic |-> FALSE, tags |-> <<>>]

\* A SeriesMarker is a func(...gopacket.Packet) []string.
SeriesMarkerResult(m, ps) ==
    IF \E i \in 1..Len(ps) : m \in ps[i].boom
    THEN [panic |-> TRUE, tags |-> <<>>]
    ELSE [panic |-> FALSE,
          tags |-> Concat([i \in 1..Len(ps) |->
                      IF m \in ps[i].hits THEN MarkerTags(m) ELSE <<>>])]

-----------------------------------------------------------------------------
(* Record builder *)

NoRecord == [none |-> TRUE]

\* NewRecord with the transport layers looked at before the IPv4 layer.
NewRecord_TransportFirst(tp) ==
    LET p == tp.Packet
        rec(l, name) ==
            [SrcIP |-> p.SrcIP, DstIP |-> p.DstIP,
             SrcPort |-> l.SrcPort, DstPort |-> l.DstPort,
             Timestamp |-> p.Timestamp,
             Payload |-> IF p.app THEN p.Payload ELSE <<>>,
             PayloadString |-> IF p.app THEN p.Payload ELSE <<>>,
             Tags |-> tp.Tags, TransportProto |-> name]
    IN  IF ~p.tcp.present /\ ~p.udp.present
        THEN [err |-> ErrNoTransport, rec |-> NoRecord]
        ELSE IF ~p.ip4 THEN [err |-> ErrNotIP4, rec |-> NoRecord]
        ELSE IF p.tcp.present THEN [err |-> "", rec |-> rec(p.tcp, "tcp")]
        ELSE [err |-> "", rec |-> rec(p.udp, "udp")]

\* NewRecord with the UDP layer taking precedence over the TCP layer.
NewRecord_UdpFirst(tp) ==
    LET p == tp.Packet
        rec(l, name) ==
            [SrcIP |-> p.SrcIP, DstIP |-> p.DstIP,
             SrcPort |-> l.SrcPort, DstPort |-> l.DstPort,
             Timestamp |-> p.Timestamp,
             Payload |-> IF p.app THEN p.Payload ELSE <<>>,
             PayloadString |-> IF p.app THEN p.Payload ELSE <<>>,
             Tags |-> tp.Tags, TransportProto |-> name]
    IN  IF ~p.ip4 THEN [err |-> ErrNotIP4, rec |-> NoRecord]
        ELSE IF p.udp.present THEN [err |-> "", rec |-> rec(p.udp, "udp")]
        ELSE IF p.tcp.present THEN [err |-> "", rec |-> rec(p.tcp, "tcp")]
        ELSE [err |-> ErrNoTransport, rec |-> NoRecord]

\* NewRecord stamping the record with the time at which it is built; the
\* number of reads made so far stands for the wall clock.
NewRecord_WallClock(tp) ==
    LET p == tp.Packet
        rec(l, name) ==
            [SrcIP |-> p.SrcIP, DstIP |-> p.DstIP,
             SrcPort |-> l.SrcPort, DstPort |-> l.DstPort,
             Timestamp |-> reads,
             Payload |-> IF p.app THEN p.Payload ELSE <<>>,
             PayloadString |-> IF p.app THEN p.Payload ELSE <<>>,
             Tags |-> tp.Tags, TransportProto |-> name]
    IN  IF ~p.ip4 THEN [err |-> ErrNotIP4, rec |-> NoRecord]
        ELSE IF p.tcp.present THEN [err |-> "", rec |-> rec(p.tcp, "tcp")]
        ELSE IF p.udp.present THEN [err |-> "", rec |-> rec(p.udp, "udp")]
        ELSE [err |-> ErrNoTransport, rec |-> NoRecord]

\* NewRecord(tp): the record, or the error.
NewRecord(tp) ==
    LET p == tp.Packet IN
    IF ~p.ip4 THEN [err |-> ErrNotIP4, rec |-> NoRecord]
    ELSE IF p.tcp.present THEN
        [err |-> "",
         rec |-> [SrcIP |-> p.SrcIP, DstIP |-> p.DstIP,
                  SrcPort |-> p.tcp.SrcPort, DstPort |-> p.tcp.DstPort,
                  Timestamp |-> p.Timestamp,
                  Payload |-> IF p.app THEN p.Payload ELSE <<>>,
                  PayloadString |-> IF p.app THEN p.Payload ELSE <<>>,
                  Tags |-> tp.Tags, TransportProto |-> "tcp"]]
    ELSE IF p.udp.present THEN
        [err |-> "",
         rec |-> [SrcIP |-> p.SrcIP, DstIP |-> p.DstIP,
                  SrcPort |-> p.udp.SrcPort, DstPort |-> p.udp.DstPort,
                  Timestamp |-> p.Timestamp,
                  Payload |-> IF p.app THEN p.Payload ELSE <<>>,
                  PayloadString |-> IF p.app THEN p.Payload ELSE <<>>,
                  Tags |-> tp.Tags, TransportProto |-> "udp"]]
    ELSE [err |-> ErrNoTransport, rec |-> NoRecord]

-----------------------------------------------------------------------------
(* Dispatcher: the part of handle that runs before the backend is called *)

\* The two marker loops of handle: the tags appended so far, and whether a
\* marker panicked (the loops stop there: nothing recovers the panic).
RECURSIVE RunMarkers(_, _, _)
RunMarkers(ms, p, tags) ==
    IF ms = <<>> THEN [panic |-> FALSE, tags |-> tags]
    ELSE LET r == MarkerResult(Head(ms), p) IN
         IF r.panic THEN [panic |-> TRUE, tags |-> tags]
         ELSE RunMarkers(Tail(ms), p, tags \o r.tags)

RECURSIVE RunSeriesMarkers(_, _, _)
RunSeriesMarkers(ms, p, tags) ==
    IF ms = <<>> THEN [panic |-> FALSE, tags |-> tags]
    ELSE LET r == SeriesMarkerResult(Head(ms), <<p>>) IN
         IF r.panic THEN [panic |-> TRUE, tags |-> tags]
         ELSE RunSeriesMarkers(Tail(ms), p, tags \o r.tags)

handleTags(b, p) ==
    LET m == RunMarkers(b.markers, p, <<>>) IN
    IF m.panic THEN m ELSE RunSeriesMarkers(b.seriesMarkers, p, m.tags)

\* The backend export selects.
exportBackend(b) == IF b.client = NilClient THEN "screen" ELSE "elastic"

\* handle without its len(tags) == 0 return.
handleOutcome_NoEmptyCheck(b, p) ==
    LET t == handleTags(b, p) IN
    IF t.panic THEN
        [kind |-> "panic", tags |-> t.tags, err |-> "", rec |-> NoRecord,
         backend |-> "none"]
    ELSE LET r == NewRecord([Packet |-> p, Tags |-> t.tags]) IN
         IF r.err # "" THEN
             [kind |-> "err", tags |-> t.tags, err |-> r.err, rec |-> NoRecord,
              backend |-> "none"]
         ELSE
             [kind |-> "export", tags |-> t.tags, err |-> "", rec |-> r.rec,
              backend |-> exportBackend(b)]

\* handle up to the call of the backend:
\*   "panic"  a marker panicked
\*   "nil"    no tags: handle returns nil
\*   "err"    NewRecord failed: export and handle return the error
\*   "export" the record is handed to the backend
handleOutcome(b, p) ==
    LET t == handleTags(b, p) IN
    IF t.panic THEN
        [kind |-> "panic", tags |-> t.tags, err |-> "", rec |-> NoRecord,
         backend |-> "none"]
    ELSE IF Len(t.tags) = 0 THEN
        [kind |-> "nil", tags |-> t.tags, err |-> "", rec |-> NoRecord,
         backend |-> "none"]
    ELSE LET r == NewRecord([Packet |-> p, Tags |-> t.tags]) IN
         IF r.err # "" THEN
             [kind |-> "err", tags |-> t.tags, err |-> r.err, rec |-> NoRecord,
              backend |-> "none"]
         ELSE
             [kind |-> "export", tags |-> t.tags, err |-> "", rec |-> r.rec,
              backend |-> exportBackend(b)]

-----------------------------------------------------------------------------
(* Backends *)

\* A field tagged omitempty: left out when its value is empty.
omitempty(name, value, empty) ==
    IF empty THEN [f \in {} |-> value] ELSE (name :> value)

\* json.Marshal of a Record, field by field: src_ip, dst_ip, payload (as
\* base64 of the bytes) and payload_str carry omitempty.
jsonMarshal(rec) ==
    omitempty("src_ip", rec.SrcIP, rec.SrcIP = "")
    @@ [transport |-> rec.TransportProto, src_port |-> rec.SrcPort]
    @@ omitempty("dst_ip", rec.DstIP, rec.DstIP = "")
    @@ [dst_port |-> rec.DstPort, date |-> rec.Timestamp, tags |-> rec.Tags]
    @@ omitempty("payload", <<"base64", rec.Payload>>, Len(rec.Payload) = 0)
    @@ omitempty("payload_str", rec.PayloadString,
                 Len(rec.PayloadString) = 0)

\* json.Marshal returns an error for a Record only when Time.MarshalJSON
\* does: a timestamp before year 0 (or after year 9999, beyond the
\* timestamps modelled).  A capture timestamp never is.
jsonMarshalError(rec) == IF rec.Timestamp \in Nat THEN "" ELSE ErrMarshal

(* Standard output is one stream for the whole process.  What is kept of  *)
(* it: the bag of its completed lines, each the sequence of the pieces    *)
(* written between two newlines, and the pieces written since the last    *)
(* newline.  A piece remembers the goroutine that wrote it; the newline    *)
(* is the piece of no goroutine.                                          *)
NoOutput == [lines |-> EmptyBag, open |-> <<>>]
Newline == [task |-> 0, data |-> "\n"]
Piece(i, data) == [task |-> i, data |-> data]

\* One Write call on os.Stdout: the file is locked for the whole call, so
\* the pieces of one call are consecutive on the stream.
RECURSIVE Write(_, _)
Write(o, ps) ==
    IF ps = <<>> THEN o
    ELSE IF Head(ps).task = Newline.task
         THEN Write([lines |-> o.lines (+) SetToBag({o.open}),
                     open |-> <<>>], Tail(ps))
         ELSE Write([o EXCEPT !.open = Append(@, Head(ps))], Tail(ps))

\* fmt.Println(s) by goroutine i: s and the newline in one Write call.
Println(o, i, s) == Write(o, <<Piece(i, s), Newline>>)

\* exportScreen(record): the error of json.Marshal, or the line printed.
exportScreen(rec) ==
    [err |-> jsonMarshalError(rec), line |-> jsonMarshal(rec)]

EsCall(c, name, type, task) ==
    [call |-> c, index |-> name, type |-> type, task |-> task]

\* The request exportElastic sends for task i.
exportElasticCall(b, i) == EsCall("Index", b.indexName, b.docType, i)

-----------------------------------------------------------------------------
(* Construction *)

NilConf ==
    [client |-> NilClient, indexName |-> "", docType |-> "", markers |-> <<>>,
     seriesMarkers |-> <<>>, cacheSize |-> 0]

Opt(op, arg, n) == [op |-> op, arg |-> arg, n |-> n]

AddPacketMarker(m) == Opt("AddPacketMarker", m, 0)
SetElastic(c) == Opt("SetElastic", c, 0)
SetElasticIndexName(name) == Opt("SetElasticIndexName", name, 0)
SetElasticDocType(doc) == Opt("SetElasticDocType", doc, 0)
SetCacheSize(size) == Opt("SetCacheSize", "", size)
\* An option function of the caller's that returns an error.
FailingOption == Opt("fail", "", 0)

\* The options New is called with: every option function of the package,
\* and an option of the caller's that fails.
Options ==
    {AddPacketMarker(m) : m \in CustomMarkers}
    \cup {SetElastic(EsClient), SetElastic(NilClient),
          SetElasticIndexName(CustomIndexName),
          SetElasticDocType(CustomDocType), SetCacheSize(7), FailingOption}

OptionLists == UNION {[1..k -> Options] : k \in 0..MaxOpts}
MarkerLists == UNION {[1..k -> CustomMarkers] : k \in 0..MaxMarkers}

\* One option function applied to the configuration.
ApplyOption(o, b) ==
    CASE o.op = "AddPacketMarker" ->
            [err |-> "", conf |-> [b EXCEPT !.markers = Append(@, o.arg)]]
      [] o.op = "SetElastic" ->
            [err |-> "", conf |-> [b EXCEPT !.client = o.arg]]
      [] o.op = "SetElasticIndexName" ->
            [err |-> "", conf |-> [b EXCEPT !.indexName = o.arg]]
      [] o.op = "SetElasticDocType" ->
            [err |-> "", conf |-> [b EXCEPT !.docType = o.arg]]
      [] o.op = "SetCacheSize" ->
            [err |-> "", conf |-> [b EXCEPT !.cacheSize = o.n]]
      [] OTHER -> [err |-> ErrOption, conf |-> b]

\* The loop goes on past a failing option and returns the first error once
\* every option has been applied.
RECURSIVE ApplyOptions_PastError(_, _, _)
ApplyOptions_PastError(opts, b, n) ==
    IF opts = <<>> THEN [err |-> "", conf |-> b, applied |-> n]
    ELSE LET r == ApplyOption(Head(opts), b)
             rest == ApplyOptions_PastError(Tail(opts), r.conf, n + 1)
         IN  IF r.err # ""
             THEN [err |-> r.err, conf |-> rest.conf,
                   applied |-> rest.applied]
             ELSE rest

\* The loop of New over its options: stops at the first error.
RECURSIVE ApplyOptions(_, _, _)
ApplyOptions(opts, b, n) ==
    IF opts = <<>> THEN [err |-> "", conf |-> b, applied |-> n]
    ELSE LET r == ApplyOption(Head(opts), b) IN
         IF r.err # "" THEN [err |-> r.err, conf |-> r.conf, applied |-> n + 1]
         ELSE ApplyOptions(Tail(opts), r.conf, n + 1)

\* IndexExists(name), then CreateIndex(name) when it does not exist.
provision(name, indices, existsErr, createErr) ==
    IF existsErr THEN
        [err |-> "IndexExists failed", indices |-> indices,
         calls |-> <<EsCall("IndexExists", name, "", 0)>>]
    ELSE IF name \in indices THEN
        [err |-> "", indices |-> indices,
         calls |-> <<EsCall("IndexExists", name, "", 0)>>]
    ELSE IF createErr THEN
        [err |-> "CreateIndex failed", indices |-> indices,
         calls |-> <<EsCall("IndexExists", name, "", 0),
                     EsCall("CreateIndex", name, "", 0)>>]
    ELSE
        [err |-> "", indices |-> indices \cup {name},
         calls |-> <<EsCall("IndexExists", name, "", 0),
                     EsCall("CreateIndex", name, "", 0)>>]

\* The index New checks and creates.
NewProvisionedIndex(b) == indexName

NewResult(opts, indices, existsErr, createErr) ==
    LET conf0 == [client |-> NilClient, indexName |-> indexName,
                  docType |-> docType, markers |-> defaultMarkers,
                  seriesMarkers |-> <<>>, cacheSize |-> 0]
        a == ApplyOptions(opts, conf0, 0)
    IN  IF a.err # "" THEN
            [err |-> a.err, conf |-> NilConf, indices |-> indices,
             calls |-> <<>>, applied |-> a.applied]
        ELSE IF a.conf.client = NilClient THEN
            [err |-> "", conf |-> a.conf, indices |-> indices,
             calls |-> <<>>, applied |-> a.applied]
        ELSE LET pr == provision(NewProvisionedIndex(a.conf), indices,
                                 existsErr, createErr) IN
            [err |-> pr.err, conf |-> IF pr.err = "" THEN a.conf ELSE NilConf,
             indices |-> pr.indices, calls |-> pr.calls,
             applied |-> a.applied]

\* The marker list NewConfig leaves in the configuration.
NewConfigMarkers(markers) ==
    IF Len(markers) = 0 THEN defaultMarkers ELSE <<>>

NewConfigResult(markers, clientErr, indices, existsErr, createErr) ==
    IF clientErr THEN
        [err |-> "NewClient failed", conf |-> NilConf, indices |-> indices,
         calls |-> <<>>]
    ELSE LET pr == provision(indexName, indices, existsErr, createErr) IN
        [err |-> pr.err,
         conf |-> IF pr.err # "" THEN NilConf
                  ELSE [client |-> EsClient, indexName |-> indexName,
                        docType |-> docType,
                        markers |-> NewConfigMarkers(markers),
                        seriesMarkers |-> <<>>, cacheSize |-> 0],
         indices |-> pr.indices, calls |-> pr.calls]

-----------------------------------------------------------------------------------------------------------------------------------------------------
(* Marker slices *)

(* A slice is a view of an array: the array, a length and a capacity.  The *)
(* arrays live in the variable arrays; cells past every slice's length     *)
(* hold the zero value "".                                                 *)
Slice(arr, len, cap) == [arr |-> arr, len |-> len, cap |-> cap]

\* The nil slice: the markers field NewConfig leaves unset.
NilSlice == Slice(0, 0, 0)

\* var defaultMarkers = []Marker{...}: length and capacity of the literal.
defaultMarkersSlice == Slice(1, Len(defaultMarkers), Len(defaultMarkers))

\* The elements a slice shows.
View(as, s) == IF s.len = 0 THEN <<>> ELSE SubSeq(as[s.arr], 1, s.len)

\* The capacity append asks for when the array is full.
growslice(cap) == IF cap = 0 THEN 1 ELSE cap + cap

\* append that grows a full array where it is instead of copying it.
append_InPlace(as, s, m) ==
    IF s.len < s.cap THEN
        [arrays |-> [as EXCEPT ![s.arr][s.len + 1] = m],
         slice |-> Slice(s.arr, s.len + 1, s.cap)]
    ELSE
        [arrays |-> [as EXCEPT ![s.arr] =
                        [k \in 1..growslice(s.cap) |->
                            IF k <= s.len THEN as[s.arr][k]
                            ELSE IF k = s.len + 1 THEN m ELSE ""]],
         slice |-> Slice(s.arr, s.len + 1, growslice(s.cap))]

\* append(s, m): in place when the array has room, into a new array that
\* starts as a copy when it is full.
append(as, s, m) ==
    IF s.len < s.cap THEN
        [arrays |-> [as EXCEPT ![s.arr][s.len + 1] = m],
         slice |-> Slice(s.arr, s.len + 1, s.cap)]
    ELSE
        [arrays |-> Append(as,
                        [k \in 1..growslice(s.cap) |->
                            IF k <= s.len THEN as[s.arr][k]
                            ELSE IF k = s.len + 1 THEN m ELSE ""]),
         slice |-> Slice(Len(as) + 1, s.len + 1, growslice(s.cap))]

\* The markers field of New's configuration as its options are applied:
\* AddPacketMarker appends to it, the other options leave it alone.
RECURSIVE ApplyMarkerOptions(_, _, _)
ApplyMarkerOptions(opts, as, s) ==
    IF opts = <<>> THEN [arrays |-> as, slice |-> s]
    ELSE IF Head(opts).op = "AddPacketMarker"
         THEN LET a == append(as, s, Head(opts).arg) IN
              ApplyMarkerOptions(Tail(opts), a.arrays, a.slice)
         ELSE ApplyMarkerOptions(Tail(opts), as, s)

\* New: markers: defaultMarkers, then the options.
NewMarkers(as, opts) == ApplyMarkerOptions(opts, as, defaultMarkersSlice)

\* NewConfig: conf.markers = defaultMarkers when no marker was supplied.
NewConfigSlice(markers) ==
    IF Len(markers) = 0 THEN defaultMarkersSlice ELSE NilSlice

\* A pipeline built by a constructor: its markers field and the markers the
\* caller supplied.
Pipe(s, supplied) == [markers |-> s, supplied |-> supplied]

\* The calls of New that only add markers.
MarkerOptionLists ==
    UNION {[1..k -> {AddPacketMarker(m) : m \in CustomMarkers}] :
              k \in 0..MaxOpts}

-----
(* State machine *)

(* What the state keeps of the constructor call: which constructor, the    *)
(* position of the first option of the caller's that fails (0: none), how  *)
(* many options were applied after that one (late), how many options were  *)
(* never applied (skipped), the markers the caller supplied, in order, and *)
(* whether a SetElastic option was among the options.                      *)
RECURSIVE SuppliedMarkers(_)
SuppliedMarkers(opts) ==
    IF opts = <<>> THEN <<>>
    ELSE IF Head(opts).op = "AddPacketMarker"
         THEN <<Head(opts).arg>> \o SuppliedMarkers(Tail(opts))
         ELSE SuppliedMarkers(Tail(opts))

FirstFailing(opts) ==
    IF \E i \in 1..Len(opts) : opts[i] = FailingOption
    THEN CHOOSE i \in 1..Len(opts) :
            /\ opts[i] = FailingOption
            /\ \A j \in 1..(i - 1) : opts[j] # FailingOption
    ELSE 0

UsesSetElastic(opts) == \E i \in 1..Len(opts) : opts[i].op = "SetElastic"

NoCtor ==
    [fn |-> "none", firstFail |-> 0, late |-> 0, skipped |-> 0,
     supplied |-> <<>>, elastic |-> FALSE]

CtorNew(opts, applied) ==
    [fn |-> "New", firstFail |-> FirstFailing(opts),
     late |-> IF FirstFailing(opts) = 0 THEN 0
              ELSE applied - FirstFailing(opts),
     skipped |-> Len(opts) - applied,
     supplied |-> SuppliedMarkers(opts), elastic |-> UsesSetElastic(opts)]

CtorNewConfig(markers) ==
    [fn |-> "NewConfig", firstFail |-> 0, late |-> 0, skipped |-> 0,
     supplied |-> markers, elastic |-> TRUE]

Init ==
    /\ proc = "running"
    /\ mainPc = "start"
    /\ ctor = NoCtor
    /\ conf = NilConf
    /\ esInit = {}
    /\ esIndices = {}
    /\ esCalls = <<>>
    /\ reads = 0
    /\ readLogs = 0
    /\ listenRet = "pending"
    /\ tasks = <<>>
    /\ arrays = <<defaultMarkers>>
    /\ pipes = <<>>
    /\ stdout = NoOutput

\* The store is outside the program: what it holds is fixed at the moment
\* construction first looks at it (calls <<>>: it never did).
Store(calls, indices) == IF calls = <<>> THEN {} ELSE indices

\* The caller builds the pipeline with New(opts...); a construction error is
\* fatal to the caller.
New(opts) ==
    /\ proc = "running"
    /\ mainPc = "start"
    /\ \E existsErr, createErr \in BOOLEAN, idx \in SUBSET IndexNames :
         LET r == NewResult(opts, idx, existsErr, createErr) IN
         /\ ctor' = CtorNew(opts, r.applied)
         /\ conf' = r.conf
         /\ arrays' = IF r.err = "" THEN NewMarkers(arrays, opts).arrays
                      ELSE arrays
         /\ pipes' = IF r.err = ""
                     THEN Append(pipes, Pipe(NewMarkers(arrays, opts).slice,
                                             SuppliedMarkers(opts)))
                     ELSE pipes
         /\ esInit' = Store(r.calls, idx)
         /\ esIndices' = Store(r.calls, r.indices)
         /\ esCalls' = esCalls \o r.calls
         /\ mainPc' = IF r.err = "" THEN "built" ELSE "failed"
         /\ proc' = IF r.err = "" THEN "running" ELSE "exited"
    /\ UNCHANGED <<stdout, reads, readLogs, listenRet, tasks>>

\* The caller builds the pipeline with NewConfig(elasticLoc, markers...).
NewConfig(markers) ==
    /\ proc = "running"
    /\ mainPc = "start"
    /\ \E clientErr, existsErr, createErr \in BOOLEAN,
          idx \in SUBSET IndexNames :
         LET r == NewConfigResult(markers, clientErr, idx, existsErr,
                                  createErr) IN
         /\ ctor' = CtorNewConfig(markers)
         /\ conf' = r.conf
         /\ pipes' = IF r.err = ""
                     THEN Append(pipes, Pipe(NewConfigSlice(markers), markers))
                     ELSE pipes
         /\ esInit' = Store(r.calls, idx)
         /\ esIndices' = Store(r.calls, r.indices)
         /\ esCalls' = esCalls \o r.calls
         /\ mainPc' = IF r.err = "" THEN "built" ELSE "failed"
         /\ proc' = IF r.err = "" THEN "running" ELSE "exited"
    /\ UNCHANGED <<stdout, arrays, reads, readLogs, listenRet, tasks>>

\* Listen: pcap.OpenLive succeeds and the capture loop starts.
ListenOpen ==
    /\ proc = "running"
    /\ mainPc = "built"
    /\ mainPc' = "capturing"
    /\ UNCHANGED <<stdout, arrays, pipes, proc, ctor, conf, esInit, esIndices, esCalls, reads, readLogs, listenRet, tasks>>

\* Listen: pcap.OpenLive fails and Listen returns the error.
ListenOpenFails ==
    /\ proc = "running"
    /\ mainPc = "built"
    /\ mainPc' = "returned"
    /\ listenRet' = "open error"
    /\ UNCHANGED <<stdout, arrays, pipes, proc, ctor, conf, esInit, esIndices, esCalls, reads, readLogs, tasks>>

\* NextPacket returns io.EOF: break, return nil.
ReadEOF ==
    /\ proc = "running"
    /\ mainPc = "capturing"
    /\ mainPc' = "returned"
    /\ listenRet' = "nil"
    /\ UNCHANGED <<stdout, arrays, pipes, proc, ctor, conf, esInit, esIndices, esCalls, reads,
                   readLogs, tasks>>

\* The read error ends the loop: break instead of continue.
ReadError_Breaks ==
    /\ proc = "running"
    /\ mainPc = "capturing"
    /\ reads < MaxReads
    /\ reads' = reads + 1
    /\ readLogs' = readLogs + 1
    /\ mainPc' = "returned"
    /\ listenRet' = "nil"
    /\ UNCHANGED <<stdout, arrays, pipes, proc, ctor, conf, esInit, esIndices, esCalls, tasks>>

\* NextPacket returns another error: log it, continue.
ReadError ==
    /\ proc = "running"
    /\ mainPc = "capturing"
    /\ reads < MaxReads
    /\ reads' = reads + 1
    /\ readLogs' = readLogs + 1
    /\ UNCHANGED <<stdout, arrays, pipes, proc, mainPc, ctor, conf, esInit, esIndices, esCalls,
                   listenRet, tasks>>

\* The goroutine Listen starts for packet p.
NewTask(p) ==
    [pkt |-> p, pc |-> "spawned", tags |-> <<>>, rec |-> NoRecord,
     ret |-> "pending", backend |-> "none", exports |-> 0, logged |-> 0,
     sent |-> <<>>, out |-> <<>>]

\* The loop waits for the tasks in flight before it starts the next one.
ReadPacket_Waits(p) ==
    /\ proc = "running"
    /\ mainPc = "capturing"
    /\ reads < MaxReads
    /\ \A i \in 1..Len(tasks) : tasks[i].pc = "done"
    /\ reads' = reads + 1
    /\ tasks' = Append(tasks, NewTask(p))
    /\ UNCHANGED <<stdout, arrays, pipes, proc, mainPc, ctor, conf, esInit, esIndices, esCalls,
                   readLogs, listenRet>>

\* NextPacket returns packet p: go func() { handle(p) ... }().
ReadPacket(p) ==
    /\ proc = "running"
    /\ mainPc = "capturing"
    /\ reads < MaxReads
    /\ reads' = reads + 1
    /\ tasks' = Append(tasks, NewTask(p))
    /\ UNCHANGED <<stdout, arrays, pipes, proc, mainPc, ctor, conf, esInit, esIndices, esCalls,
                   readLogs, listenRet>>

\* The task's state once handle has run up to the call of the backend (or to
\* its return, when it does not get there); the goroutine logs a returned
\* error.  call: the request exportElastic sends for this task.
Handled(t, o, call) ==
    CASE o.kind = "panic" -> [t EXCEPT !.pc = "panicked", !.tags = o.tags]
      [] o.kind = "nil" -> [t EXCEPT !.pc = "done", !.tags = o.tags,
                                     !.ret = "nil"]
      [] o.kind = "err" -> [t EXCEPT !.pc = "done", !.tags = o.tags,
                                     !.ret = o.err, !.logged = @ + 1]
      [] OTHER -> [t EXCEPT !.pc = "exporting", !.tags = o.tags,
                            !.rec = o.rec, !.backend = o.backend,
                            !.exports = @ + 1,
                            !.sent = IF o.backend = "elastic"
                                     THEN Append(@, call) ELSE @]

\* The goroutines share one variable p with the loop: a task classifies the
\* packet read last.
TaskHandle_SharedPacket(i) ==
    /\ proc = "running"
    /\ tasks[i].pc = "spawned"
    /\ LET o == handleOutcome(conf, tasks[Len(tasks)].pkt) IN
       /\ tasks' = [tasks EXCEPT
                       ![i] = Handled(@, o, exportElasticCall(conf, i))]
       /\ proc' = IF o.kind = "panic" THEN "crashed" ELSE proc
    /\ UNCHANGED <<stdout, arrays, pipes, mainPc, ctor, conf, esInit, esIndices, esCalls, reads,
                   readLogs, listenRet>>

\* handle keeps a count in the shared configuration: a write to b.
TaskHandle_WritesConf(i) ==
    /\ proc = "running"
    /\ tasks[i].pc = "spawned"
    /\ LET o == handleOutcome(conf, tasks[i].pkt) IN
       /\ tasks' = [tasks EXCEPT
                       ![i] = Handled(@, o, exportElasticCall(conf, i))]
       /\ proc' = IF o.kind = "panic" THEN "crashed" ELSE proc
    /\ conf' = [conf EXCEPT !.cacheSize = 1]
    /\ UNCHANGED <<stdout, arrays, pipes, mainPc, ctor, esInit, esIndices, esCalls, reads,
                   readLogs, listenRet>>

\* Goroutine i runs handle(p): markers, NewRecord, and the backend is called.
\* A panic of a marker is not recovered: the process dies.
TaskHandle(i) ==
    /\ proc = "running"
    /\ tasks[i].pc = "spawned"
    /\ LET o == handleOutcome(conf, tasks[i].pkt) IN
       /\ tasks' = [tasks EXCEPT
                       ![i] = Handled(@, o, exportElasticCall(conf, i))]
       /\ proc' = IF o.kind = "panic" THEN "crashed" ELSE proc
    /\ UNCHANGED <<stdout, arrays, pipes, mainPc, ctor, conf, esInit, esIndices, esCalls, reads,
                   readLogs, listenRet>>

\* A failed export puts the task back at the start of handle: a retry.
Exported_Retry(t, err) ==
    IF err = "" THEN [t EXCEPT !.pc = "done", !.ret = "nil"]
    ELSE [t EXCEPT !.pc = "spawned", !.logged = @ + 1]

\* The task's state once the backend's call has returned err ("" for nil).
Exported(t, err) ==
    IF err = "" THEN [t EXCEPT !.pc = "done", !.ret = "nil"]
    ELSE [t EXCEPT !.pc = "done", !.ret = err, !.logged = @ + 1]

\* Goroutine i has a piece on standard output.
Wrote(i) ==
    \/ \E k \in 1..Len(stdout.open) : stdout.open[k].task = i
    \/ \E l \in BagToSet(stdout.lines) : \E k \in 1..Len(l) : l[k].task = i

\* exportScreen prints the line and the newline with two calls, fmt.Print
\* of each: other goroutines can write between the two.
TaskScreenReturn_TwoWrites(i) ==
    /\ proc = "running"
    /\ tasks[i].pc = "exporting"
    /\ tasks[i].backend = "screen"
    /\ LET r == exportScreen(tasks[i].rec) IN
       IF r.err # "" THEN
           /\ tasks' = [tasks EXCEPT ![i] = Exported(@, r.err)]
           /\ stdout' = stdout
       ELSE IF ~Wrote(i) THEN
           /\ stdout' = Write(stdout, <<Piece(i, r.line)>>)
           /\ tasks' = tasks
       ELSE
           /\ stdout' = Write(stdout, <<Newline>>)
           /\ tasks' = [tasks EXCEPT
                           ![i] = [Exported(@, "") EXCEPT
                                     !.out = Append(@, r.line)]]
    /\ UNCHANGED <<proc, mainPc, ctor, conf, esInit, esIndices, esCalls,
                   reads, readLogs, listenRet, arrays, pipes>>

\* exportScreen returns for goroutine i: the error of json.Marshal, or nil
\* once fmt.Println has written the line to standard output.
TaskScreenReturn(i) ==
    /\ proc = "running"
    /\ tasks[i].pc = "exporting"
    /\ tasks[i].backend = "screen"
    /\ LET r == exportScreen(tasks[i].rec) IN
       IF r.err # "" THEN
           /\ tasks' = [tasks EXCEPT ![i] = Exported(@, r.err)]
           /\ stdout' = stdout
       ELSE
           /\ stdout' = Println(stdout, i, r.line)
           /\ tasks' = [tasks EXCEPT
                           ![i] = [Exported(@, "") EXCEPT
                                     !.out = Append(@, r.line)]]
    /\ UNCHANGED <<proc, mainPc, ctor, conf, esInit, esIndices, esCalls,
                   reads, readLogs, listenRet, arrays, pipes>>

\* The goroutine ends the process on an error: log.Fatal for log.Println.
TaskElasticReturn_Fatal(i) ==
    /\ proc = "running"
    /\ tasks[i].pc = "exporting"
    /\ tasks[i].backend = "elastic"
    /\ \E err \in {"", ErrElastic} :
         /\ tasks' = [tasks EXCEPT ![i] = Exported(@, err)]
         /\ proc' = IF err = "" THEN proc ELSE "exited"
    /\ UNCHANGED <<stdout, arrays, pipes, mainPc, ctor, conf, esInit, esIndices, esCalls,
                   reads, readLogs, listenRet>>

\* exportElastic returns for goroutine i, with or without an error.
TaskElasticReturn(i) ==
    /\ proc = "running"
    /\ tasks[i].pc = "exporting"
    /\ tasks[i].backend = "elastic"
    /\ \E err \in {"", ErrElastic} :
         tasks' = [tasks EXCEPT ![i] = Exported(@, err)]
    /\ UNCHANGED <<stdout, arrays, pipes, proc, mainPc, ctor, conf, esInit, esIndices, esCalls,
                   reads, readLogs, listenRet>>

\* main: log.Fatal(conf.Listen(iface)) once Listen has returned.
MainExit ==
    /\ proc = "running"
    /\ mainPc = "returned"
    /\ proc' = "exited"
    /\ UNCHANGED <<stdout, arrays, pipes, mainPc, ctor, conf, esInit, esIndices, esCalls, reads, readLogs, listenRet, tasks>>

\* Listen and the goroutines it starts.
Capture ==
    \/ ListenOpen
    \/ ListenOpenFails
    \/ ReadEOF
    \/ ReadError
    \/ \E p \in Packets : ReadPacket(p)
    \/ \E i \in 1..Len(tasks) : TaskHandle(i)
    \/ \E i \in 1..Len(tasks) : TaskScreenReturn(i)
    \/ \E i \in 1..Len(tasks) : TaskElasticReturn(i)

\* The constructors are called before Listen, once.
Next ==
    \/ mainPc = "start" /\ \E opts \in OptionLists : New(opts)
    \/ mainPc = "start" /\ \E markers \in MarkerLists : NewConfig(markers)
    \/ Capture

\* The pipeline as a library: any constructor call, then Listen.
Spec == Init /\ [][Next]_vars

\* The pipeline under cmd/badcapt's main: New() in debug mode, NewConfig(url)
\* otherwise, Listen, and the exit once Listen has returned.
CmdNext ==
    \/ New(<<>>)
    \/ NewConfig(<<>>)
    \/ Capture
    \/ MainExit

CmdSpec == Init /\ [][CmdNext]_vars

\* A caller builds one more pipeline with New(AddPacketMarker(...)...) and
\* keeps it: no client is set, so New returns after the options.
NewMore(opts) ==
    /\ proc = "running"
    /\ mainPc = "start"
    /\ Len(pipes) < MaxPipes
    /\ NewResult(opts, {}, FALSE, FALSE).err = ""
    /\ arrays' = NewMarkers(arrays, opts).arrays
    /\ pipes' = Append(pipes, Pipe(NewMarkers(arrays, opts).slice,
                                   SuppliedMarkers(opts)))
    /\ UNCHANGED <<stdout, proc, mainPc, ctor, conf, esInit, esIndices, esCalls,
                   reads, readLogs, listenRet, tasks>>

BuildNext ==
    \/ \E opts \in MarkerOptionLists : NewMore(opts)
    \/ New(<<>>)

\* A caller that builds several pipelines in one process, the last of them
\* with no options: the one conf holds.
BuildSpec == Init /\ [][BuildNext]_vars

-----------------------------------------------------------------------------
(* Properties *)

TaskIds == 1..Len(tasks)

\* The pipeline was built: conf is the constructor's result.
Built == mainPc \in {"built", "capturing", "returned"}

\* handle has run for task i up to the backend's call or to its return.
Ran(i) == tasks[i].pc \in {"exporting", "done"}

IsErr(r) == r \notin {"pending", "nil"}

\* Positions of construction's calls of one kind on the elastic client.
CallsOf(c) == {k \in 1..Len(esCalls) : esCalls[k].call = c}

\* The tags every marker of ms, then every series marker of sms, returns
\* for p, in order.
TagsOf(ms, sms, p) ==
    Concat([k \in 1..Len(ms) |-> MarkerResult(ms[k], p).tags])
        \o Concat([k \in 1..Len(sms) |-> SeriesMarkerResult(sms[k], <<p>>).tags])

SomePanics(ms, sms, p) ==
    \/ \E k \in 1..Len(ms) : MarkerResult(ms[k], p).panic
    \/ \E k \in 1..Len(sms) : SeriesMarkerResult(sms[k], <<p>>).panic

\* C1: a packet for which the registered markers and series markers return
\* no tag makes handle return nil, with no Record built and no backend
\* called; every record that reached a backend carries at least one tag.
C1_NoTagsNoExport ==
    /\ \A i \in TaskIds :
         ( /\ tasks[i].pc # "spawned"
           /\ ~SomePanics(conf.markers, conf.seriesMarkers, tasks[i].pkt)
           /\ TagsOf(conf.markers, conf.seriesMarkers, tasks[i].pkt) = <<>> )
         => /\ tasks[i].pc = "done"
            /\ tasks[i].ret = "nil"
            /\ tasks[i].rec = NoRecord
            /\ tasks[i].exports = 0
            /\ tasks[i].backend = "none"
            /\ tasks[i].sent = <<>> /\ tasks[i].out = <<>>
    /\ \A i \in TaskIds :
         /\ tasks[i].exports > 0 => Len(tasks[i].rec.Tags) > 0
         /\ (tasks[i].sent # <<>> \/ tasks[i].out # <<>>) =>
              tasks[i].exports > 0
         /\ \A k \in 1..Len(tasks[i].out) : Len(tasks[i].out[k].tags) > 0

\* A UDP packet no default marker recognises was handled by a pipeline whose
\* markers are registered, next to a packet that was exported.
C1_Witness ==
    \E i, j \in TaskIds :
        /\ tasks[i].pc = "done" /\ tasks[i].ret = "nil"
        /\ tasks[i].tags = <<>> /\ tasks[i].pkt.udp.present
        /\ Len(conf.markers) = 3
        /\ tasks[j].exports = 1 /\ tasks[j].pc = "done"

\* C2: when the pipeline's index does not exist at construction, exactly one
\* CreateIndex call is made, by construction (so before any Index call);
\* when it exists, none is made; the tasks send Index requests only.
C2_ProvisionOnce ==
    (Built /\ conf.client # NilClient) =>
        /\ conf.indexName \notin esInit =>
             Cardinality(CallsOf("CreateIndex")) = 1
        /\ conf.indexName \in esInit => CallsOf("CreateIndex") = {}
        /\ \A i \in TaskIds : \A k \in 1..Len(tasks[i].sent) :
             tasks[i].sent[k].call = "Index"

\* C3: the index construction checks and creates is the index the records
\* are indexed under.
C3_SameIndex ==
    (Built /\ conf.client # NilClient) =>
        /\ \A k \in 1..Len(esCalls) : esCalls[k].index = conf.indexName
        /\ \A i \in TaskIds : \A k \in 1..Len(tasks[i].sent) :
             tasks[i].sent[k].index = conf.indexName

\* C4: the tags handle computes are those of the three default markers, then
\* of every marker the caller supplied, in the order supplied, then of the
\* series markers.
C4_TagsInRegistrationOrder ==
    \A i \in TaskIds :
        ( /\ Ran(i)
          /\ ~SomePanics(defaultMarkers \o ctor.supplied, conf.seriesMarkers,
                         tasks[i].pkt) )
        => tasks[i].tags = TagsOf(defaultMarkers \o ctor.supplied,
                                  conf.seriesMarkers, tasks[i].pkt)

\* C5: NewRecord fails exactly when the packet has no IPv4 layer (first
\* check) or has one but neither TCP nor UDP, never for a missing
\* application layer; when it fails no backend is called and handle returns
\* the error.
C5_RecordErrors ==
    /\ \A i \in TaskIds :
         LET t == tasks[i]
             p == tasks[i].pkt
         IN (Ran(i) /\ t.tags # <<>>) =>
              /\ ~p.ip4 =>
                   /\ t.pc = "done" /\ t.ret = ErrNotIP4
                   /\ t.exports = 0 /\ t.rec = NoRecord
              /\ (p.ip4 /\ ~p.tcp.present /\ ~p.udp.present) =>
                   /\ t.pc = "done" /\ t.ret = ErrNoTransport
                   /\ t.exports = 0 /\ t.rec = NoRecord
              /\ (p.ip4 /\ (p.tcp.present \/ p.udp.present)) =>
                   /\ t.ret \notin {ErrNotIP4, ErrNoTransport}
                   /\ t.exports = 1 /\ t.rec # NoRecord
    /\ \A i \in TaskIds :
         (tasks[i].sent # <<>> \/ tasks[i].out # <<>>) =>
            tasks[i].rec # NoRecord

\* Both errors were returned, or one next to a record built from a packet
\* that has no application layer.
C5_Witness ==
    \E i, j \in TaskIds :
        /\ tasks[i].ret \in {ErrNotIP4, ErrNoTransport}
        /\ tasks[i].tags # <<>>
        /\ \/ tasks[j].ret \in {ErrNotIP4, ErrNoTransport} \ {tasks[i].ret}
           \/ /\ tasks[j].pc = "done" /\ tasks[j].exports = 1
              /\ ~tasks[j].pkt.app

\* C6: a Record's transport is "tcp" with the TCP header's ports when the
\* packet has a TCP layer (also next to a UDP layer), and "udp" with the UDP
\* header's ports when it has a UDP layer only.
C6_TransportMatchesPorts ==
    \A i \in TaskIds :
        LET r == tasks[i].rec
            p == tasks[i].pkt
        IN r # NoRecord =>
             /\ r.TransportProto \in {"tcp", "udp"}
             /\ p.tcp.present =>
                  /\ r.TransportProto = "tcp"
                  /\ r.SrcPort = p.tcp.SrcPort /\ r.DstPort = p.tcp.DstPort
             /\ (~p.tcp.present /\ p.udp.present) =>
                  /\ r.TransportProto = "udp"
                  /\ r.SrcPort = p.udp.SrcPort /\ r.DstPort = p.udp.DstPort

\* A record was built from a packet with both layers, and one from a packet
\* with a UDP layer only.
C6_Witness ==
    \E i, j \in TaskIds :
        /\ tasks[i].rec # NoRecord
        /\ tasks[i].pkt.tcp.present /\ tasks[i].pkt.udp.present
        /\ tasks[j].rec # NoRecord
        /\ ~tasks[j].pkt.tcp.present /\ tasks[j].pkt.udp.present

\* C7: a marker that panics on a packet is isolated: the process goes on,
\* and the packet gets the tags of the other markers.
C7_PanicIsolated ==
    \A i \in TaskIds :
        ( /\ tasks[i].pc # "spawned"
          /\ SomePanics(conf.markers, conf.seriesMarkers, tasks[i].pkt) )
        => /\ proc # "crashed"
           /\ tasks[i].tags = TagsOf(conf.markers, conf.seriesMarkers,
                                     tasks[i].pkt)

\* A step in which a task ends with an error.
TaskFails(i) ==
    /\ Len(tasks') = Len(tasks)
    /\ tasks[i].ret = "pending"
    /\ IsErr(tasks'[i].ret)

\* C8: an error of NewRecord or of the backend in one task leaves the
\* capture loop, the process and every other task as they are; once the
\* loop runs, Listen returns only when a read returns end-of-stream.
C8_ErrorsStayInTask ==
    /\ [][\A i \in TaskIds :
            TaskFails(i) =>
              /\ mainPc' = mainPc /\ listenRet' = listenRet /\ proc' = proc
              /\ reads' = reads /\ readLogs' = readLogs
              /\ tasks'[i].logged = tasks[i].logged + 1
              /\ \A j \in TaskIds \ {i} : tasks'[j] = tasks[j]]_vars
    /\ [][(mainPc = "capturing" /\ mainPc' # "capturing") =>
            /\ mainPc' = "returned" /\ listenRet' = "nil"
            /\ tasks' = tasks /\ readLogs' = readLogs]_vars

\* The backend failed for one task, NewRecord for another, while the loop
\* is still capturing.
C8_Witness ==
    \E i, j \in TaskIds :
        /\ tasks[i].ret = ErrElastic
        /\ tasks[j].ret \in {ErrNotIP4, ErrNoTransport}
        /\ mainPc = "capturing" /\ proc = "running"

\* C9: end-of-stream ends the loop and Listen returns nil; another read
\* error is logged, starts no task and leaves the loop reading; a task is
\* started only with a packet read.
C9_ReadOutcomes ==
    /\ [][(listenRet = "pending" /\ listenRet' = "nil") =>
            /\ mainPc = "capturing" /\ mainPc' = "returned"
            /\ tasks' = tasks /\ readLogs' = readLogs /\ reads' = reads]_vars
    /\ [][readLogs' # readLogs =>
            /\ readLogs' = readLogs + 1 /\ reads' = reads + 1
            /\ tasks' = tasks
            /\ mainPc = "capturing" /\ mainPc' = "capturing"
            /\ listenRet' = "pending"]_vars
    /\ [][Len(tasks') # Len(tasks) =>
            /\ Len(tasks') = Len(tasks) + 1 /\ reads' = reads + 1
            /\ readLogs' = readLogs
            /\ tasks'[Len(tasks')].pc = "spawned"
            /\ tasks'[Len(tasks')].pkt \in Packets
            /\ mainPc = "capturing" /\ mainPc' = "capturing"]_vars
    /\ [](reads = readLogs + Len(tasks))
    /\ []((proc = "running" /\ mainPc = "capturing") => ENABLED ReadEOF)

\* A read error was logged, a packet was read after it, and the loop ended
\* on end-of-stream.
C9_Witness ==
    /\ readLogs = 1 /\ Len(tasks) = 1 /\ reads = 2
    /\ mainPc = "returned" /\ listenRet = "nil"

\* C10: while the loop is capturing, the next packet can be read and its
\* task started whatever the tasks in flight, and a task blocked in its
\* backend's call can return whatever the other tasks do.
C10_NoBackpressure ==
    /\ (proc = "running" /\ mainPc = "capturing" /\ reads < MaxReads) =>
         \A p \in Packets : ENABLED ReadPacket(p)
    /\ proc = "running" =>
         \A i \in TaskIds :
            /\ tasks[i].pc = "spawned" => ENABLED TaskHandle(i)
            /\ tasks[i].pc = "exporting" =>
                 ENABLED (TaskScreenReturn(i) \/ TaskElasticReturn(i))

\* A task is blocked in its backend's call while a task started later has
\* completed its export, and the loop can read on.
C10_Witness ==
    \E i, j \in TaskIds :
        /\ i < j
        /\ tasks[i].pc = "exporting"
        /\ tasks[j].pc = "done" /\ tasks[j].exports = 1
        /\ mainPc = "capturing" /\ proc = "running"

\* C11: for each packet handed to handle at most one export call is made,
\* one console line or one index request; a failed call is not made again:
\* the task is done with the backend's error, logged once, and nothing of
\* the packet was written.
C11_NoRetry ==
    \A i \in TaskIds :
        LET t == tasks[i] IN
        /\ t.exports <= 1
        /\ Len(t.sent) + Len(t.out) <= t.exports
        /\ t.logged <= 1
        /\ t.backend = "screen" => t.sent = <<>>
        /\ t.backend = "elastic" => (t.out = <<>> /\ Len(t.sent) = t.exports)
        /\ t.pc = "spawned" => (t.exports = 0 /\ t.logged = 0)
        /\ t.ret = ErrElastic =>
             /\ t.pc = "done" /\ t.exports = 1 /\ t.logged = 1
             /\ Len(t.sent) = 1 /\ t.out = <<>>
        /\ (t.pc = "done" /\ t.exports = 1) =>
             /\ t.ret \in {"nil", ErrElastic}
             /\ t.logged = (IF t.ret = "nil" THEN 0 ELSE 1)

\* The index request of one task failed and the task is done, while a task
\* started after it completed its export.
C11_Witness ==
    \E i, j \in TaskIds :
        /\ i < j
        /\ tasks[i].ret = ErrElastic /\ tasks[i].pc = "done"
        /\ tasks[i].exports = 1 /\ tasks[i].logged = 1
        /\ tasks[j].ret = "nil" /\ tasks[j].exports = 1

\* C12: a tagged packet for which NewRecord fails (no IPv4 layer, or neither
\* TCP nor UDP) is dropped silently: no backend is called and nothing is
\* written to the log for it.
C12_SilentDrop ==
    \A i \in TaskIds :
        tasks[i].ret \in {ErrNotIP4, ErrNoTransport} =>
            /\ tasks[i].exports = 0
            /\ tasks[i].sent = <<>> /\ tasks[i].out = <<>>
            /\ tasks[i].logged = 0

\* C13: the backend is the one chosen at construction: a pipeline built
\* with no search-index option writes every record to the console and makes
\* no call on a search index; one built with SetElastic or by NewConfig
\* sends every record to the search index and writes none to the console,
\* whatever handle the option was given; all records of one pipeline go to
\* the same backend.
C13_BackendExplicit ==
    /\ \A i \in TaskIds :
         tasks[i].exports > 0 =>
            /\ ~ctor.elastic =>
                 /\ tasks[i].backend = "screen" /\ tasks[i].sent = <<>>
                 /\ esCalls = <<>>
            /\ ctor.elastic =>
                 /\ tasks[i].backend = "elastic" /\ tasks[i].out = <<>>
    /\ \A i, j \in TaskIds :
         (tasks[i].exports > 0 /\ tasks[j].exports > 0) =>
            tasks[i].backend = tasks[j].backend

\* C14: New applies its options one at a time in argument order; at the
\* first option that returns an error it returns that error and no pipeline,
\* having applied no later option and made no IndexExists or CreateIndex
\* call; the index is provisioned only once every option has succeeded.
C14_FailFast ==
    ctor.fn = "New" =>
        /\ ctor.firstFail # 0 =>
             /\ mainPc = "failed" /\ proc = "exited"
             /\ conf = NilConf
             /\ ctor.late = 0
             /\ esCalls = <<>> /\ esIndices = esInit
        /\ ctor.firstFail = 0 => ctor.skipped = 0
        /\ esCalls # <<>> =>
             /\ ctor.firstFail = 0 /\ ctor.skipped = 0
             /\ ctor.elastic
        /\ mainPc # "failed" => conf.markers = defaultMarkers \o ctor.supplied

\* New was given a failing option first and SetElastic after it: it applied
\* one option and returned the error.
C14_Witness ==
    /\ ctor.fn = "New" /\ mainPc = "failed"
    /\ ctor.elastic
    /\ ctor.firstFail = 1 /\ ctor.late = 0
    /\ ctor.skipped = MaxOpts - 1

\* C15: once the pipeline is built no step of Listen, handle, export,
\* exportElastic or exportScreen changes the configuration (markers, series
\* markers, client, index name, document type), whatever the interleaving
\* of the tasks: they read it and never write it.
C15_ConfReadOnly ==
    [][Built => /\ conf' = conf
                /\ ctor' = ctor
                /\ esCalls' = esCalls]_vars

\* Two tasks of a pipeline with a search-index client have exported while
\* the loop was capturing, and Listen has returned.
C15_Witness ==
    /\ mainPc = "returned"
    /\ conf.client = EsClient /\ conf.markers = defaultMarkers
    /\ \E i, j \in TaskIds :
         /\ i # j
         /\ tasks[i].pc = "done" /\ tasks[i].exports = 1
         /\ tasks[j].pc = "done" /\ tasks[j].exports = 1

\* C16: a Record built for a tagged packet carries the packet's IPv4 source
\* and destination addresses, the capture timestamp of the packet's
\* metadata whenever the task got to run, the tags handle computed, in
\* order, and as payload and payload string the bytes of the application
\* layer, both empty when the packet has none.
C16_RecordFields ==
    \A i \in TaskIds :
        LET r == tasks[i].rec
            p == tasks[i].pkt
        IN r # NoRecord =>
             /\ p.ip4
             /\ r.SrcIP = p.SrcIP /\ r.DstIP = p.DstIP
             /\ r.Timestamp = p.Timestamp
             /\ r.Tags = tasks[i].tags
             /\ r.Tags = TagsOf(conf.markers, conf.seriesMarkers, p)
             /\ r.Tags # <<>>
             /\ p.app => (r.Payload = p.Payload /\ r.PayloadString = p.Payload)
             /\ ~p.app => (r.Payload = <<>> /\ r.PayloadString = <<>>)

\* The second packet read has its record, built with two tags in marker
\* order from a packet with an application layer, while the first packet
\* read, which has no application layer, got its record too.
C16_Witness ==
    \E i, j \in TaskIds :
        /\ i < j
        /\ tasks[i].rec # NoRecord /\ ~tasks[i].pkt.app
        /\ tasks[i].rec.Payload = <<>>
        /\ tasks[j].rec # NoRecord /\ tasks[j].pkt.app
        /\ tasks[j].rec.Payload # <<>>
        /\ Len(tasks[j].rec.Tags) > 1

\* C17: the console backend writes exactly one JSON line per exported
\* Record, and the lines of concurrent tasks are never merged or split:
\* no line of standard output, finished or not, holds pieces of two writes,
\* every finished line is the whole JSON of one task's Record, and each
\* task that exported to the console has exactly one line there.  The line has the fields transport,
\* src_port, dst_port, date and tags with the Record's values, and has
\* neither payload nor payload_str exactly when the payload is empty.
C17_ConsoleLine ==
    /\ Len(stdout.open) <= 1
    /\ \A l \in BagToSet(stdout.lines) :
         /\ Len(l) = 1
         /\ CopiesIn(l, stdout.lines) = 1
         /\ l[1].task \in TaskIds
         /\ tasks[l[1].task].out = <<l[1].data>>
         /\ l[1].data = jsonMarshal(tasks[l[1].task].rec)
    /\ BagCardinality(stdout.lines)
          = Cardinality({i \in TaskIds : tasks[i].backend = "screen"
                                          /\ tasks[i].pc = "done"})
    /\ \A i \in TaskIds :
        LET t == tasks[i] IN
        /\ Len(t.out) <= 1
        /\ t.out # <<>> =>
             /\ t.backend = "screen" /\ t.exports = 1 /\ t.pc = "done"
             /\ CopiesIn(<<Piece(i, t.out[1])>>, stdout.lines) = 1
        /\ (t.backend = "screen" /\ t.pc = "done") => Len(t.out) = 1
        /\ \A k \in 1..Len(t.out) :
             LET l == t.out[k] IN
             /\ {"transport", "src_port", "dst_port", "date", "tags"}
                   \subseteq DOMAIN l
             /\ l.transport = t.rec.TransportProto
             /\ l.src_port = t.rec.SrcPort /\ l.dst_port = t.rec.DstPort
             /\ l.date = t.rec.Timestamp
             /\ l.tags = t.rec.Tags
             /\ ({"payload", "payload_str"} \cap DOMAIN l = {})
                   <=> (t.rec.Payload = <<>>)
             /\ t.rec.Payload # <<>> =>
                   {"payload", "payload_str"} \subseteq DOMAIN l

\* Two tasks that ran side by side have their lines on standard output:
\* one for a record with a payload, one for a record without.
C17_Witness ==
    /\ BagCardinality(stdout.lines) = 2
    /\ \E i, j \in TaskIds :
        /\ Len(tasks[i].out) = 1 /\ tasks[i].rec.Payload = <<>>
        /\ "payload" \notin DOMAIN tasks[i].out[1]
        /\ CopiesIn(<<Piece(i, tasks[i].out[1])>>, stdout.lines) = 1
        /\ Len(tasks[j].out) = 1 /\ tasks[j].rec.Payload # <<>>
        /\ "payload_str" \in DOMAIN tasks[j].out[1]
        /\ CopiesIn(<<Piece(j, tasks[j].out[1])>>, stdout.lines) = 1

\* C18: every read that returns a packet starts exactly one task, and that
\* task classifies the packet of its own read, also when later packets have
\* been read before it runs: its tags, its record and its request are those
\* of that packet; a task runs handle once and its packet is never replaced.
C18_OwnPacket ==
    /\ [](Len(tasks) = reads - readLogs)
    /\ [](\A i \in TaskIds :
            /\ tasks[i].pkt \in Packets
            /\ (Ran(i) /\ ~SomePanics(conf.markers, conf.seriesMarkers,
                                      tasks[i].pkt)) =>
                 tasks[i].tags = TagsOf(conf.markers, conf.seriesMarkers,
                                        tasks[i].pkt)
            /\ tasks[i].rec # NoRecord =>
                 /\ tasks[i].rec.Timestamp = tasks[i].pkt.Timestamp
                 /\ tasks[i].rec.SrcPort \in {tasks[i].pkt.tcp.SrcPort,
                                              tasks[i].pkt.udp.SrcPort}
            /\ \A k \in 1..Len(tasks[i].sent) : tasks[i].sent[k].task = i)
    /\ [][\A i \in TaskIds :
            /\ Len(tasks') >= Len(tasks)
            /\ tasks'[i].pkt = tasks[i].pkt
            /\ tasks[i].pc # "spawned" =>
                 /\ tasks'[i].pc # "spawned"
                 /\ tasks'[i].tags = tasks[i].tags
                 /\ tasks'[i].rec = tasks[i].rec
                 /\ tasks'[i].exports = tasks[i].exports]_vars

\* The first task has the record of its own packet while the task of a
\* different packet, read after it, has already completed its export.
C18_Witness ==
    /\ Len(tasks) = MaxReads
    /\ tasks[1].pkt # tasks[MaxReads].pkt
    /\ tasks[1].tags # tasks[MaxReads].tags
    /\ tasks[1].pc = "exporting" /\ tasks[1].rec # NoRecord
    /\ tasks[MaxReads].pc = "done" /\ tasks[MaxReads].exports = 1

\* C19: every packet read whose tags are not empty and whose record can be
\* built is eventually handed to the backend, exactly once, also when
\* end-of-stream is read right after it and Listen returns to main.  No
\* step is taken once the process has exited, so at the exit every such
\* packet must have been handed over.
C19_ExportedBeforeExit ==
    proc = "exited" =>
        \A i \in TaskIds :
            handleOutcome(conf, tasks[i].pkt).kind = "export" =>
                /\ tasks[i].exports = 1
                /\ tasks[i].pc \in {"exporting", "done"}

\* The markers pipeline k runs: what its markers field shows.
MarkersOf(k) == View(arrays, pipes[k].markers)

\* C20: building pipelines leaves the process-wide default marker list as
\* it is, and pipelines do not share added markers: whatever New calls with
\* AddPacketMarker came before, every pipeline has the three defaults
\* followed by its own added markers, one built with no options exactly the
\* three defaults, and no pipeline runs a marker added to another.
C20_DefaultsNotShared ==
    /\ View(arrays, defaultMarkersSlice)
          = <<"MiraiIdentifier", "ZmapIdentifier", "MasscanIdentifier">>
    /\ \A k \in 1..Len(pipes) :
         /\ MarkersOf(k) = defaultMarkers \o pipes[k].supplied
         /\ pipes[k].supplied = <<>> => MarkersOf(k) = defaultMarkers
         /\ \A n \in 1..Len(MarkersOf(k)) :
              MarkersOf(k)[n] \in CustomMarkers =>
                 \E j \in 1..Len(pipes[k].supplied) :
                    pipes[k].supplied[j] = MarkersOf(k)[n]
    /\ mainPc = "built" => MarkersOf(Len(pipes)) = conf.markers

\* Two pipelines were built with different added markers, and after them one
\* with no options.
C20_Witness ==
    \E i, j, k \in 1..Len(pipes) :
        /\ i < j /\ j < k
        /\ pipes[i].supplied # <<>> /\ pipes[j].supplied # <<>>
        /\ pipes[i].supplied # pipes[j].supplied
        /\ pipes[k].supplied = <<>>
        /\ MarkersOf(k) = defaultMarkers

====
